---- MODULE Spec2Model ----
(***************************************************************************)
(* Model of the odds ingestion pipeline of                                 *)
(* src/Python/ingest_odds_from_api.py: the scheduler loop run_forever,     *)
(* one cycle main (fetch, flatten, write dimensions, prune, append) and    *)
(* the fact store output/odds.csv.                                         *)
(*                                                                         *)
(* The store is modelled as what the file holds: a sequence of CSV rows    *)
(* whose cells are text.  Data frames are sequences of typed rows; the     *)
(* dtype pandas infers for a column is computed from the column, because   *)
(* it decides how a cell is printed (to_csv) and how a key is built        *)
(* (astype(str)).  pandas 2.x semantics are assumed.                       *)
(***************************************************************************)
EXTENDS Integers, Sequences, FiniteSets, TLC

(***************************************************************************)
(* Bounds of the model.                                                    *)
(***************************************************************************)
MaxTime == 3      \* wall clock runs over 0..MaxTime (hours), then stays
MaxRows == 4      \* capacity of the fact store, in rows

(***************************************************************************)
(* Values.                                                                 *)
(***************************************************************************)
NONE == "<None>"          \* Python None in a string-valued position
NaT == -1                 \* pandas NaT; also a JSON null timestamp
BadTime == -2             \* a JSON timestamp string that does not parse
Absent == -3              \* the key is not in the JSON object at all

Times == 0..MaxTime

NoPoint == [h |-> -1, isInt |-> FALSE]          \* outcome without "point"
FloatPoint(h) == [h |-> h, isInt |-> FALSE]     \* JSON float h/2
IntPoint(n) == [h |-> 2 * n, isInt |-> TRUE]    \* JSON integer n
MaxHalf == 8                                    \* points range over 0..4 by 0.5
Halves == 0..MaxHalf

RECURSIVE Concat(_)
Concat(ss) == IF ss = <<>> THEN <<>> ELSE Head(ss) \o Concat(Tail(ss))

RECURSIVE SelectIdx(_, _, _)
\* the subsequence of s at the indices of keep, in order
SelectIdx(s, keep, i) ==
  IF i > Len(s) THEN <<>>
  ELSE (IF i \in keep THEN <<s[i]>> ELSE <<>>) \o SelectIdx(s, keep, i + 1)

IsPrefix(s, t) == Len(s) <= Len(t) /\ SubSeq(t, 1, Len(s)) = s

(***************************************************************************)
(* The JSON payload of the odds API.                                       *)
(***************************************************************************)
Outcome(name, price, point) == [name |-> name, price |-> price, point |-> point]
Market(key, last_update, outcomes) ==
  [key |-> key, last_update |-> last_update, outcomes |-> outcomes]
Book(key, last_update, markets) ==
  [key |-> key, title |-> "Book " \o key, last_update |-> last_update,
   markets |-> markets]
Event(id, commence_time, home_team, away_team, bookmakers) ==
  [id |-> id, sport_key |-> "americanfootball_nfl", sport_title |-> "NFL",
   commence_time |-> commence_time, home_team |-> home_team,
   away_team |-> away_team, bookmakers |-> bookmakers]

\* no events at all
PEmpty == <<>>
\* one moneyline market, no outcome has a point; market has no last_update
PH2H ==
  <<Event("e1", 2, "A", "B",
      <<Book("bk", 1,
          <<Market("h2h", Absent,
              <<Outcome("A", -110, NoPoint), Outcome("B", 100, NoPoint)>>)>>)>>)>>
\* a moneyline quote and a totals quote: points are missing and float
PMixed ==
  <<Event("e1", 2, "A", "B",
      <<Book("bk", 1,
          <<Market("h2h", 1, <<Outcome("A", -120, NoPoint)>>),
            Market("totals", 2, <<Outcome("Over", -105, FloatPoint(7))>>)>>)>>)>>
\* the provider repeats one outcome inside a market
PDup ==
  <<Event("e1", 2, "A", "B",
      <<Book("bk", 1,
          <<Market("totals", 2,
              <<Outcome("Over", -105, FloatPoint(7)),
                Outcome("Over", -105, FloatPoint(7))>>)>>)>>)>>
\* a game that kicked off at hour 0 (the API lists live games too);
\* the point is a JSON integer
PLive ==
  <<Event("e0", 0, "C", "D",
      <<Book("bk", 1,
          <<Market("totals", 1, <<Outcome("Over", -110, IntPoint(3))>>)>>)>>)>>
\* commence_time does not parse, home_team is missing
PNoTime ==
  <<Event("e2", BadTime, NONE, "B",
      <<Book("b2", NaT,
          <<Market("h2h", Absent, <<Outcome("B", 150, NoPoint)>>)>>)>>)>>
\* an event object without "id"
PNoId == <<Event(NONE, 2, "A", "B", <<>>)>>

\* alternate lines quoted under the moneyline key: one outcome name, two
\* points, one market last_update
PAlt ==
  <<Event("e1", 2, "A", "B",
      <<Book("bk", 1,
          <<Market("h2h", 1,
              <<Outcome("A", -110, FloatPoint(3)),
                Outcome("A", 120, FloatPoint(5))>>)>>)>>)>>

\* names that contain the separator of the key
PBar ==
  <<Event("e1", 2, "A", "B",
      <<Book("bk", 1,
          <<Market("h2h", 1, <<Outcome("A|B", -110, NoPoint)>>),
            Market("h2h|A", 1, <<Outcome("B", 100, NoPoint)>>)>>)>>)>>

\* an event that no bookmaker quotes yet
PNoBooks == <<Event("e1", 2, "A", "B", <<>>)>>

Payloads == {PEmpty, PH2H, PMixed, PDup, PLive, PNoTime, PNoId, PNoBooks}

\* content of data/sample_odds.json when the file is there
SamplePayload == PMixed

(***************************************************************************)
(* Text of the values in a CSV cell and in a key.                          *)
(***************************************************************************)
\* pd.to_datetime(..., errors="coerce", utc=True)
to_datetime(t) == IF t \in Nat THEN t ELSE NaT

\* how pandas prints a UTC timestamp, in to_csv and in astype(str)
TsText(t) ==
  "2024-01-01 " \o (IF t < 10 THEN "0" ELSE "") \o ToString(t) \o ":00:00+00:00"

\* a timestamp cell read back from the file and passed to to_datetime
ParseTs(s) ==
  IF \E t \in Times : TsText(t) = s
  THEN CHOOSE t \in Times : TsText(t) = s
  ELSE NaT

IntText(h) == ToString(h \div 2)
FloatText(h) == ToString(h \div 2) \o (IF h % 2 = 0 THEN ".0" ELSE ".5")

IsIntText(s) == \E h \in Halves : h % 2 = 0 /\ IntText(h) = s
IsNumText(s) == IsIntText(s) \/ \E h \in Halves : FloatText(h) = s
\* the number in a line_point cell, in half points
ParseNum(s) == CHOOSE h \in Halves : (h % 2 = 0 /\ IntText(h) = s) \/ FloatText(h) = s


(***************************************************************************)
(* flatten_odds: nested JSON to three frames.                              *)
(***************************************************************************)
\* Python dict assignment d[key] = val on a dict kept as a sequence of
\* <<key, val>> in insertion order: an existing key keeps its position
DictPut(d, key, val) ==
  IF \E i \in 1..Len(d) : d[i][1] = key
  THEN [i \in 1..Len(d) |-> IF d[i][1] = key THEN <<key, val>> ELSE d[i]]
  ELSE Append(d, <<key, val>>)

RECURSIVE DictPutAll(_, _)
DictPutAll(d, kvs) ==
  IF kvs = <<>> THEN d ELSE DictPutAll(DictPut(d, Head(kvs)[1], Head(kvs)[2]), Tail(kvs))

DictValues(d) == [i \in 1..Len(d) |-> d[i][2]]

\* lines 117-122
is_home_team(outcome_name, home_team, away_team) ==
  IF outcome_name \notin {NONE, ""} /\ home_team \notin {NONE, ""}
  THEN IF outcome_name = home_team THEN "True"
       ELSE IF outcome_name = away_team THEN "False"
       ELSE NONE
  ELSE NONE

\* line 110: market.get("last_update", bookmaker_last_update)
market_last_update(market, book) ==
  IF market.last_update = Absent THEN book.last_update ELSE market.last_update

\* lines 124-137, with the to_datetime of lines 149-151 applied
OddsRow(event, book, market, outcome, t) ==
  [event_id |-> event.id,
   bookmaker_key |-> book.key,
   market_key |-> market.key,
   outcome_name |-> outcome.name,
   is_home_team |-> is_home_team(outcome.name, event.home_team, event.away_team),
   price_american |-> outcome.price,
   line_point |-> outcome.point,
   event_commence_utc |-> to_datetime(event.commence_time),
   market_last_update |-> to_datetime(market_last_update(market, book)),
   snapshot_utc |-> t]

MarketRows(event, book, market, t) ==
  [i \in 1..Len(market.outcomes) |-> OddsRow(event, book, market, market.outcomes[i], t)]
BookRows(event, book, t) ==
  Concat([i \in 1..Len(book.markets) |-> MarketRows(event, book, book.markets[i], t)])
EventRows(event, t) ==
  Concat([i \in 1..Len(event.bookmakers) |-> BookRows(event, event.bookmakers[i], t)])

\* lines 88-95 and 147
EventDim(event) ==
  [event_id |-> event.id, sport_key |-> event.sport_key,
   sport_title |-> event.sport_title,
   commence_time_utc |-> to_datetime(event.commence_time),
   home_team |-> event.home_team, away_team |-> event.away_team]
\* lines 103-106
BookDim(book) == [bookmaker_key |-> book.key, bookmaker_title |-> book.title]

\* event["id"] raises KeyError when the key is missing
FlattenRaises(json_data) == \E i \in 1..Len(json_data) : json_data[i].id = NONE

flatten_odds(json_data, t) ==
  [events_df |->
     DictValues(DictPutAll(<<>>,
       [i \in 1..Len(json_data) |-> <<json_data[i].id, EventDim(json_data[i])>>])),
   bookmakers_df |->
     DictValues(DictPutAll(<<>>,
       Concat([i \in 1..Len(json_data) |->
         [j \in 1..Len(json_data[i].bookmakers) |->
            <<json_data[i].bookmakers[j].key, BookDim(json_data[i].bookmakers[j])>>]]))),
   odds_df |-> Concat([i \in 1..Len(json_data) |-> EventRows(json_data[i], t)])]

NoFrames == [events_df |-> <<>>, bookmakers_df |-> <<>>, odds_df |-> <<>>]

(***************************************************************************)
(* Column dtypes and the text of a line_point.                             *)
(***************************************************************************)
\* dtype of line_point in pd.DataFrame(odds_rows): all None stays object,
\* all int is int64, anything else is float64 with NaN for None
FramePointDtype(rows) ==
  IF \A i \in 1..Len(rows) : rows[i].line_point = NoPoint THEN "object"
  ELSE IF \A i \in 1..Len(rows) : rows[i].line_point.isInt THEN "int64"
  ELSE "float64"

\* dtype read_csv infers for the line_point column of the file
CsvPointDtype(rows) ==
  IF rows # <<>> /\ \A i \in 1..Len(rows) : IsIntText(rows[i].line_point)
  THEN "int64" ELSE "float64"

\* a number of a column of the dtype, printed (to_csv and astype(str) agree)
NumText(dtype, h) == IF dtype = "int64" THEN IntText(h) ELSE FloatText(h)

\* astype(str) of a missing value: None in an object column, NaN otherwise
MissingStr(dtype) == IF dtype = "object" THEN "None" ELSE "nan"

(***************************************************************************)
(* DataFrame.to_csv of the fact columns (cols_to_write, lines 163-175).    *)
(***************************************************************************)
TsCell(t) == IF t = NaT THEN "" ELSE TsText(t)
StrCell(s) == IF s = NONE THEN "" ELSE s

ToCsvRow(row, dtype) ==
  [event_id |-> row.event_id,
   bookmaker_key |-> row.bookmaker_key,
   market_key |-> row.market_key,
   outcome_name |-> StrCell(row.outcome_name),
   is_home_team |-> StrCell(row.is_home_team),
   price_american |-> ToString(row.price_american),
   line_point |-> IF row.line_point = NoPoint THEN ""
                  ELSE NumText(dtype, row.line_point.h),
   event_commence_utc |-> TsCell(row.event_commence_utc),
   market_last_update |-> TsCell(row.market_last_update),
   snapshot_utc |-> TsCell(row.snapshot_utc)]

\* the rows of a frame as to_csv prints them
ToCsv(rows) == [i \in 1..Len(rows) |-> ToCsvRow(rows[i], FramePointDtype(rows))]

(***************************************************************************)
(* Composite keys (UNIQUE_COLS, lines 24-31 and 183-205).                  *)
(***************************************************************************)
UNIQUE_COLS ==
  <<"event_id", "bookmaker_key", "market_key", "outcome_name", "line_point",
    "market_last_update">>

RECURSIVE Join(_, _)
\* sep.join(strs)
Join(strs, sep) ==
  IF strs = <<>> THEN ""
  ELSE IF Len(strs) = 1 THEN strs[1]
  ELSE strs[1] \o sep \o Join(Tail(strs), sep)

TsStr(t) == IF t = NaT THEN "NaT" ELSE TsText(t)

\* incoming.loc[:, UNIQUE_COLS].astype(str), one row of the frame
IncomingStr(row, dtype) ==
  [event_id |-> row.event_id,
   bookmaker_key |-> row.bookmaker_key,
   market_key |-> row.market_key,
   outcome_name |-> IF row.outcome_name = NONE THEN "None" ELSE row.outcome_name,
   line_point |-> IF row.line_point = NoPoint THEN MissingStr(dtype)
                  ELSE NumText(dtype, row.line_point.h),
   market_last_update |-> TsStr(row.market_last_update)]

\* existing.loc[:, UNIQUE_COLS].astype(str), one row read back from the
\* file: an empty cell is NaN, market_last_update went through to_datetime
ExistingStr(cells, dtype) ==
  [event_id |-> cells.event_id,
   bookmaker_key |-> cells.bookmaker_key,
   market_key |-> cells.market_key,
   outcome_name |-> IF cells.outcome_name = "" THEN "nan" ELSE cells.outcome_name,
   line_point |-> IF cells.line_point = "" THEN "nan"
                  ELSE NumText(dtype, ParseNum(cells.line_point)),
   market_last_update |-> TsStr(ParseTs(cells.market_last_update))]

\* .apply("|".join, axis=1)
KeyString(strRow) == Join([c \in 1..Len(UNIQUE_COLS) |-> strRow[UNIQUE_COLS[c]]], "|")

existing_keys(rows) ==
  {KeyString(ExistingStr(rows[i], CsvPointDtype(rows))) : i \in 1..Len(rows)}
incoming_keys(odds_df) ==
  [i \in 1..Len(odds_df) |-> KeyString(IncomingStr(odds_df[i], FramePointDtype(odds_df)))]

(***************************************************************************)
(* Files.                                                                  *)
(***************************************************************************)
\* A file is its data rows, in order, and hdr, the numbers of the lines of
\* the file that are header lines.
NoFile == [exists |-> FALSE, rows |-> <<>>, hdr |-> {}]
\* to_csv(path, index=False): the file is replaced, the header comes first
File(rows) == [exists |-> TRUE, rows |-> rows, hdr |-> {1}]

\* line 215: header=False
AppendHeader == FALSE

\* to_csv(path, mode="a", header=..., index=False)
AppendMode(file, rows, header) ==
  [exists |-> TRUE,
   rows |-> file.rows \o rows,
   hdr |-> IF header THEN file.hdr \cup {Len(file.rows) + Cardinality(file.hdr) + 1}
           ELSE file.hdr]

(***************************************************************************)
(* remove_expired_events (lines 33-56).                                    *)
(***************************************************************************)
\* the comparison turned around: the started events are the ones kept
NotExpired_inverted(cell, t) == ParseTs(cell) < t

\* line 49: the row passes df["event_commence_utc"] >= now; NaT compares False
NotExpired(cell, t) == ParseTs(cell) # NaT /\ ParseTs(cell) >= t

\* a row of the file read by read_csv and printed again by to_csv
Reprint(cells, dtype) ==
  [cells EXCEPT
     !.line_point = IF @ = "" THEN "" ELSE NumText(dtype, ParseNum(@)),
     !.event_commence_utc = TsCell(ParseTs(@))]

\* line 49: the rows that stay
Kept(file, t) ==
  SelectIdx(file.rows,
            {i \in 1..Len(file.rows) :
               NotExpired(file.rows[i].event_commence_utc, t)}, 1)

\* the rewrite of line 53 without the test of line 52
PruneRewrites_always(file, t) == file.exists

\* lines 37 and 52: the file is there and after < before
PruneRewrites(file, t) == file.exists /\ Len(Kept(file, t)) < Len(file.rows)

remove_expired_events(file, t) ==
  IF PruneRewrites(file, t)
  THEN File([i \in 1..Len(Kept(file, t)) |->
               Reprint(Kept(file, t)[i], CsvPointDtype(file.rows))])
  ELSE file

(***************************************************************************)
(* append_odds_snapshot (lines 156-216).                                   *)
(***************************************************************************)
\* rows of the batch whose key is not in the file (lines 208-209)
NewIdx(file, odds_df) ==
  {i \in 1..Len(odds_df) : incoming_keys(odds_df)[i] \notin existing_keys(file.rows)}

\* the file the call leaves behind when it does not raise
AppendWrite(file, odds_df) ==
  IF ~file.exists THEN File(ToCsv(odds_df))
  ELSE IF NewIdx(file, odds_df) = {} THEN file
  ELSE AppendMode(file, SelectIdx(ToCsv(odds_df), NewIdx(file, odds_df), 1),
                  AppendHeader)

\* line 175: a frame built from no rows has no columns, odds_df[cols_to_write]
\* raises KeyError; a write beyond the capacity of the disk raises OSError
AppendRaises(file, odds_df) ==
  \/ odds_df = <<>>
  \/ Len(AppendWrite(file, odds_df).rows) > MaxRows

\* line 215 with mode="w": the new rows replace the file
append_odds_snapshot_truncating(file, odds_df) ==
  IF AppendRaises(file, odds_df) THEN file
  ELSE IF ~file.exists THEN File(ToCsv(odds_df))
  ELSE File(SelectIdx(ToCsv(odds_df), NewIdx(file, odds_df), 1))

append_odds_snapshot(file, odds_df) ==
  IF AppendRaises(file, odds_df) THEN file ELSE AppendWrite(file, odds_df)

\* the call writes to the file: lines 179 and 215, not the return of 211-213
AppendWrites(file, odds_df) ==
  /\ ~AppendRaises(file, odds_df)
  /\ ~file.exists \/ NewIdx(file, odds_df) # {}

(***************************************************************************)
(* The process: module import, run_forever, main.                          *)
(***************************************************************************)
VARIABLES
  API_KEY,         \* os.environ.get("API_KEY"), NONE when unset
  sample_exists,   \* data/sample_odds.json is there
  pc,              \* where the process is
  now,             \* wall clock, in hours
  data,            \* main: the payload being processed
  frames,          \* main: events_df, bookmakers_df, odds_df
  odds_csv,        \* output/odds.csv, the fact store
  events_csv,      \* output/events.csv
  bookmakers_csv,  \* output/bookmakers.csv
  steps,           \* history: steps of main begun in the current cycle
  fetch_failed,    \* history: the fetch of the current cycle raised
  prune_now,       \* history: now of line 46 in the last pass over the store
  cycle0,          \* history: the three files when the current cycle began
  writes,          \* history: steps of the current cycle that wrote odds.csv
  reader,          \* the last run of a chart script over odds.csv
  writers,         \* two ingestion processes inside main, by process
  raced,           \* history: a process wrote after the store changed under it
  retry            \* a call of read_csv_retry of the dashboard

vars ==
  <<API_KEY, sample_exists, pc, now, data, frames, odds_csv, events_csv,
    bookmakers_csv, steps, fetch_failed, prune_now, cycle0, writes,
    reader, writers, raced, retry>>

files == <<odds_csv, events_csv, bookmakers_csv>>

\* read_csv_retry has not been called
NoRetry ==
  [tries |-> 0, delay |-> 0, i |-> 0, at |-> "none", log |-> <<>>,
   slept |-> <<>>, table |-> <<>>, error |-> 0]

\* two ingestion processes started against the same output directory
Writers == {1, 2}
IdleWriter == [at |-> "idle", odds_df |-> <<>>, new_rows |-> <<>>, seen |-> NoFile]
NoWriters == [w \in Writers |-> IdleWriter]

\* no chart script has run yet
NoRun == [op |-> "none", input |-> <<>>, kept |-> {}, chart |-> {}]

\* "if API_KEY is None" in place of "if not API_KEY"
ConfigOk_noneOnly(key) == key # NONE

\* lines 11-13: if not API_KEY: raise RuntimeError
ConfigOk(key) == key \notin {NONE, ""}

\* run_forever without the try/except
OnRaise_uncaught == "halted"

\* lines 264-267: an exception leaving main is caught in run_forever
OnRaise == "except"

\* main without the return of line 234
AfterFetchFailure_noReturn(have_sample) == "flatten"

\* lines 223-234: after a failed fetch main goes on with the sample payload
\* if the sample file is there, and returns otherwise
AfterFetchFailure(have_sample) == IF have_sample THEN "flatten" ELSE "sleep"

\* the pruning moved in front of the dimension files
MainOrder_pruneFirst == <<"flatten", "prune", "dims", "append">>
\* the pruning moved behind the append
MainOrder_appendFirst == <<"flatten", "dims", "append", "prune">>

\* lines 236-257: the statements of main after the fetch, in order
MainOrder == <<"flatten", "dims", "prune", "append">>

\* where main goes when step s completes; after the last one it returns
NextStep(s) ==
  LET i == CHOOSE k \in 1..Len(MainOrder) : MainOrder[k] = s
  IN IF i < Len(MainOrder) THEN MainOrder[i + 1] ELSE "sleep"

Init ==
  /\ API_KEY \in {NONE, "", "key"}
  /\ sample_exists \in BOOLEAN
  /\ pc = "import"
  /\ now = 0
  /\ data = <<>>
  /\ frames = NoFrames
  /\ odds_csv = NoFile
  /\ events_csv = NoFile
  /\ bookmakers_csv = NoFile
  /\ steps = <<>>
  /\ fetch_failed = FALSE
  /\ prune_now = NaT
  /\ cycle0 = <<NoFile, NoFile, NoFile>>
  /\ writes = {}
  /\ reader = NoRun
  /\ writers = NoWriters
  /\ raced = FALSE
  /\ retry = NoRetry

\* lines 11-13 and 272-273: the module body runs, then run_forever starts
import_module ==
  /\ pc = "import"
  /\ pc' = IF ConfigOk(API_KEY) THEN "fetch" ELSE "halted"
  /\ UNCHANGED <<retry, writers, raced, reader, writes, API_KEY, sample_exists, now, data, frames, odds_csv, events_csv,
                 bookmakers_csv, steps, fetch_failed, prune_now, cycle0>>

\* lines 221-222: the request succeeds
fetch_odds_from_api(feed) ==
  /\ pc = "fetch"
  /\ \E p \in feed : data' = p
  /\ pc' = MainOrder[1]
  /\ steps' = <<"fetch">>
  /\ UNCHANGED <<retry, writers, raced, reader, writes, API_KEY, sample_exists, now, frames, odds_csv, events_csv,
                 bookmakers_csv, fetch_failed, prune_now, cycle0>>

\* lines 223-234: the request raises
fetch_raises ==
  /\ pc = "fetch"
  /\ fetch_failed' = TRUE
  /\ pc' = AfterFetchFailure(sample_exists)
  /\ data' = IF pc' = "sleep" THEN <<>> ELSE SamplePayload
  /\ steps' = <<"fetch">>
  /\ UNCHANGED <<retry, writers, raced, reader, writes, API_KEY, sample_exists, now, frames, odds_csv, events_csv,
                 bookmakers_csv, prune_now, cycle0>>

\* lines 229-231: the sample file is there and json.load raises
sample_raises ==
  /\ pc = "fetch"
  /\ sample_exists
  /\ fetch_failed' = TRUE
  /\ pc' = OnRaise
  /\ steps' = <<"fetch">>
  /\ UNCHANGED <<retry, writers, raced, reader, writes, API_KEY, sample_exists, now, data, frames, odds_csv, events_csv,
                 bookmakers_csv, prune_now, cycle0>>

\* line 236
flatten ==
  /\ pc = "flatten"
  /\ steps' = Append(steps, "flatten")
  /\ IF FlattenRaises(data)
     THEN pc' = OnRaise /\ frames' = frames
     ELSE pc' = NextStep("flatten") /\ frames' = flatten_odds(data, now)
  /\ UNCHANGED <<retry, writers, raced, reader, writes, API_KEY, sample_exists, now, data, odds_csv, events_csv,
                 bookmakers_csv, fetch_failed, prune_now, cycle0>>

\* lines 247-251
write_dimensions ==
  /\ pc = "dims"
  /\ steps' = Append(steps, "dims")
  /\ events_csv' = File(frames.events_df)
  /\ bookmakers_csv' = File(frames.bookmakers_df)
  /\ pc' = NextStep("dims")
  /\ UNCHANGED <<retry, writers, raced, reader, writes, API_KEY, sample_exists, now, data, frames, odds_csv,
                 fetch_failed, prune_now, cycle0>>

\* lines 250-251: a to_csv raises OSError, the first or the second one
write_dimensions_raises ==
  /\ pc = "dims"
  /\ steps' = Append(steps, "dims")
  /\ \E written \in BOOLEAN :
       events_csv' = IF written THEN File(frames.events_df) ELSE events_csv
  /\ pc' = OnRaise
  /\ UNCHANGED <<retry, writers, raced, reader, writes, API_KEY, sample_exists, now, data, frames, odds_csv,
                 bookmakers_csv, fetch_failed, prune_now, cycle0>>

\* line 254
prune ==
  /\ pc = "prune"
  /\ steps' = Append(steps, "prune")
  /\ odds_csv' = remove_expired_events(odds_csv, now)
  /\ writes' = IF PruneRewrites(odds_csv, now) THEN writes \cup {"prune"} ELSE writes
  /\ prune_now' = IF odds_csv.exists THEN now ELSE prune_now
  /\ pc' = NextStep("prune")
  /\ UNCHANGED <<retry, writers, raced, reader, API_KEY, sample_exists, now, data, frames, events_csv,
                 bookmakers_csv, fetch_failed, cycle0>>

\* line 40: read_csv raises (the file cannot be read)
prune_raises ==
  /\ pc = "prune"
  /\ odds_csv.exists
  /\ steps' = Append(steps, "prune")
  /\ pc' = OnRaise
  /\ UNCHANGED <<retry, writers, raced, reader, writes, API_KEY, sample_exists, now, data, frames, odds_csv, events_csv,
                 bookmakers_csv, fetch_failed, prune_now, cycle0>>

\* line 257
append ==
  /\ pc = "append"
  /\ steps' = Append(steps, "append")
  /\ odds_csv' = append_odds_snapshot(odds_csv, frames.odds_df)
  /\ writes' = IF AppendWrites(odds_csv, frames.odds_df) THEN writes \cup {"append"}
               ELSE writes
  /\ pc' = IF AppendRaises(odds_csv, frames.odds_df) THEN OnRaise
           ELSE NextStep("append")
  /\ UNCHANGED <<retry, writers, raced, reader, API_KEY, sample_exists, now, data, frames, events_csv,
                 bookmakers_csv, fetch_failed, prune_now, cycle0>>

\* an except clause that puts back the files of the start of the cycle
AfterException_rollback(fs, fs0) == fs0

\* lines 266-267: the except clause prints the error, the files stay as the
\* failed cycle left them
AfterException(fs, fs0) == fs

\* lines 266-267
handle_exception ==
  /\ pc = "except"
  /\ pc' = "sleep"
  /\ odds_csv' = AfterException(files, cycle0)[1]
  /\ events_csv' = AfterException(files, cycle0)[2]
  /\ bookmakers_csv' = AfterException(files, cycle0)[3]
  /\ UNCHANGED <<retry, writers, raced, reader, writes, API_KEY, sample_exists, now, data, frames,
                 steps, fetch_failed, prune_now, cycle0>>

\* lines 268-269, then the next iteration calls main
sleep ==
  /\ pc = "sleep"
  /\ now' = IF now < MaxTime THEN now + 1 ELSE now
  /\ pc' = "fetch"
  /\ data' = <<>>
  /\ frames' = NoFrames
  /\ steps' = <<>>
  /\ fetch_failed' = FALSE
  /\ cycle0' = files
  /\ writes' = {}
  /\ UNCHANGED <<retry, writers, raced, reader, API_KEY, sample_exists, odds_csv, events_csv, bookmakers_csv,
                 prune_now>>

\* every step but the successful fetch
Step ==
  \/ import_module
  \/ fetch_raises
  \/ sample_raises
  \/ flatten
  \/ write_dimensions
  \/ write_dimensions_raises
  \/ prune
  \/ prune_raises
  \/ append
  \/ handle_exception
  \/ sleep

Next == fetch_odds_from_api(Payloads) \/ Step

Spec == Init /\ [][Next]_vars

\* The scheduler under a feed of three payloads: one that goes through, one
\* that makes flatten raise, one that makes the append raise.  There is one
\* thread, so a step that can be taken is taken.
LiveFeed == {PH2H, PNoId, PEmpty}
LiveNext == fetch_odds_from_api(LiveFeed) \/ Step
FairSpec == Init /\ [][LiveNext]_vars /\ WF_vars(LiveNext)

\* The ingester under a feed with names that contain the separator.
KeyFeed == {PH2H, PBar}
KeyNext == fetch_odds_from_api(KeyFeed) \/ Step
KeySpec == Init /\ [][KeyNext]_vars

(***************************************************************************)
(* The chart scripts, separate processes that read odds.csv: dashboard.py  *)
(* and plot_line_movement.py.                                              *)
(***************************************************************************)
\* dashboard.py lines 96-99
DASHBOARD_SUBSET ==
  <<"event_id", "bookmaker_key", "market_key", "outcome_name", "line_point",
    "market_last_update">>
\* plot_line_movement.py line 20
PLOT_SUBSET ==
  <<"event_id", "bookmaker_key", "market_key", "outcome_name",
    "market_last_update">>

\* a cell as read_csv and to_datetime give it to drop_duplicates: a missing
\* value equals a missing value
ReadCell(cells, col) ==
  IF col = "market_last_update" THEN <<"ts", ParseTs(cells[col])>>
  ELSE IF col = "line_point"
       THEN (IF cells[col] = "" THEN <<"nan", 0>> ELSE <<"num", ParseNum(cells[col])>>)
  ELSE <<"str", cells[col]>>
SubsetKey(cells, subset) == [c \in 1..Len(subset) |-> ReadCell(cells, subset[c])]

\* sort_values("market_last_update").drop_duplicates(subset, keep="last"):
\* one row of every group stays; the sort is not stable, so which row of a
\* group comes last is not determined
drop_duplicates(rows, subset) ==
  {{rows[k] : k \in keep} :
     keep \in {ks \in SUBSET (1..Len(rows)) :
                 \A i \in 1..Len(rows) :
                   Cardinality({k \in ks : SubsetKey(rows[k], subset) =
                                             SubsetKey(rows[i], subset)}) = 1}}

\* dashboard.py lines 36-44 and 64-66: the rows that reach the dedup
DashboardRows(rows, t) ==
  SelectIdx(rows,
            {i \in 1..Len(rows) :
               /\ rows[i].event_id # ""
               /\ rows[i].market_key # ""
               /\ ParseTs(rows[i].market_last_update) # NaT
               /\ ParseTs(rows[i].event_commence_utc) # NaT
               /\ ParseTs(rows[i].event_commence_utc) >= t
               /\ rows[i].price_american # ""}, 1)

\* plot_line_movement.py lines 12-16: the moneyline rows of the first event
PlotRows(rows) ==
  SelectIdx(rows,
            {i \in 1..Len(rows) :
               rows[i].event_id = rows[1].event_id /\ rows[i].market_key = "h2h"}, 1)

\* plot_line_movement.py lines 23-25
PlotClean(kept) ==
  {r \in kept : ParseTs(r.market_last_update) # NaT /\ r.price_american # ""}

\* dashboard.py lines 20-22, 32-47 and 96-100
dashboard_read ==
  /\ odds_csv.exists
  /\ \E kept \in drop_duplicates(DashboardRows(odds_csv.rows, now), DASHBOARD_SUBSET) :
       reader' = [op |-> "dashboard", input |-> DashboardRows(odds_csv.rows, now),
                  kept |-> kept, chart |-> kept]
  /\ UNCHANGED <<retry, writers, raced, API_KEY, sample_exists, pc, now, data, frames, odds_csv,
                 events_csv, bookmakers_csv, steps, fetch_failed, prune_now,
                 cycle0, writes>>

\* plot_line_movement.py lines 5-25; iloc[0] of line 12 needs a row
plot_read ==
  /\ odds_csv.exists
  /\ odds_csv.rows # <<>>
  /\ \E kept \in drop_duplicates(PlotRows(odds_csv.rows), PLOT_SUBSET) :
       reader' = [op |-> "plot", input |-> PlotRows(odds_csv.rows),
                  kept |-> kept, chart |-> PlotClean(kept)]
  /\ UNCHANGED <<retry, writers, raced, API_KEY, sample_exists, pc, now, data, frames, odds_csv,
                 events_csv, bookmakers_csv, steps, fetch_failed, prune_now,
                 cycle0, writes>>

\* The ingester under a feed of two payloads, and the two chart scripts
\* reading the store it builds.
ReaderFeed == {PH2H, PAlt}
ReaderNext ==
  \/ fetch_odds_from_api(ReaderFeed)
  \/ Step
  \/ dashboard_read
  \/ plot_read
ReaderSpec == Init /\ [][ReaderNext]_vars

(***************************************************************************)
(* Two ingestion processes on one store.  Each runs main; the file         *)
(* operations of append_odds_snapshot are separate steps of a process:     *)
(* the test of line 178 with the read of line 184, and the write of line   *)
(* 179 or 215.                                                             *)
(***************************************************************************)
RaceFeed == {PMixed, PLive}

RaceInit ==
  /\ API_KEY = "key"
  /\ sample_exists = FALSE
  /\ pc = "fetch"
  /\ now = 0
  /\ data = <<>>
  /\ frames = NoFrames
  /\ odds_csv = NoFile
  /\ events_csv = NoFile
  /\ bookmakers_csv = NoFile
  /\ steps = <<>>
  /\ fetch_failed = FALSE
  /\ prune_now = NaT
  /\ cycle0 = <<NoFile, NoFile, NoFile>>
  /\ writes = {}
  /\ reader = NoRun
  /\ writers = NoWriters
  /\ raced = FALSE
  /\ retry = NoRetry

\* lines 219-254 of process w: fetch, flatten, the dimension files, the prune
race_main(w) ==
  /\ writers[w].at = "idle"
  /\ \E p \in RaceFeed :
       /\ events_csv' = File(flatten_odds(p, now).events_df)
       /\ bookmakers_csv' = File(flatten_odds(p, now).bookmakers_df)
       /\ writers' = [writers EXCEPT ![w] =
            [at |-> "append", odds_df |-> flatten_odds(p, now).odds_df,
             new_rows |-> <<>>, seen |-> NoFile]]
  /\ odds_csv' = remove_expired_events(odds_csv, now)
  /\ UNCHANGED <<retry, API_KEY, sample_exists, pc, now, data, frames, steps,
                 fetch_failed, prune_now, cycle0, writes, reader, raced>>

\* lines 175-209 of process w: out_path.exists(), then read_csv and the filter
race_check(w) ==
  /\ writers[w].at = "append"
  /\ writers' = [writers EXCEPT ![w] =
       [at |-> IF odds_csv.exists THEN "filtered" ELSE "first",
        odds_df |-> @.odds_df,
        new_rows |-> IF odds_csv.exists
                     THEN SelectIdx(ToCsv(@.odds_df), NewIdx(odds_csv, @.odds_df), 1)
                     ELSE <<>>,
        seen |-> odds_csv]]
  /\ UNCHANGED <<retry, API_KEY, sample_exists, pc, now, data, frames, odds_csv,
                 events_csv, bookmakers_csv, steps, fetch_failed, prune_now,
                 cycle0, writes, reader, raced>>

\* what the write of process w leaves: line 179 replaces the file, line 215
\* appends to it, lines 211-213 return
RaceResult(w) ==
  IF writers[w].at = "first" THEN File(ToCsv(writers[w].odds_df))
  ELSE IF writers[w].new_rows = <<>> THEN odds_csv
  ELSE AppendMode(odds_csv, writers[w].new_rows, AppendHeader)

\* lines 179 and 211-215 of process w; a write beyond the capacity raises
race_write(w) ==
  /\ writers[w].at \in {"first", "filtered"}
  /\ odds_csv' = IF Len(RaceResult(w).rows) > MaxRows THEN odds_csv
                 ELSE RaceResult(w)
  /\ raced' = (raced \/ (odds_csv' # odds_csv /\ odds_csv # writers[w].seen))
  /\ writers' = [writers EXCEPT ![w] = IdleWriter]
  /\ UNCHANGED <<retry, API_KEY, sample_exists, pc, now, data, frames, events_csv,
                 bookmakers_csv, steps, fetch_failed, prune_now, cycle0,
                 writes, reader>>

RaceNext ==
  \E w \in Writers :
    \/ race_main(w)
    \/ race_check(w)
    \/ race_write(w)
RaceSpec == RaceInit /\ [][RaceNext]_vars

(***************************************************************************)
(* read_csv_retry of dashboard.py (lines 24-32), called on a store that    *)
(* the ingester keeps appending to.                                        *)
(***************************************************************************)
MaxTries == 5            \* the default of tries, and the largest we call with
Delays == {1, 2}         \* delay, in tenths of a second; the default is 2
RetryFeed == {PMixed, PLive}

\* range(tries) with one more round
InRange_oneMore(i, tries) == i < tries + 1

\* line 25: for _ in range(tries)
InRange(i, tries) == i < tries

\* the dashboard calls read_csv_retry(csv_path, tries, delay); the file is
\* there (lines 20-22), written from some payload
RetryInit ==
  /\ API_KEY = "key"
  /\ sample_exists = FALSE
  /\ pc = "fetch"
  /\ now = 0
  /\ data = <<>>
  /\ frames = NoFrames
  /\ \E p \in RetryFeed :
       odds_csv = append_odds_snapshot(NoFile, flatten_odds(p, 0).odds_df)
  /\ events_csv = NoFile
  /\ bookmakers_csv = NoFile
  /\ steps = <<>>
  /\ fetch_failed = FALSE
  /\ prune_now = NaT
  /\ cycle0 = <<NoFile, NoFile, NoFile>>
  /\ writes = {}
  /\ reader = NoRun
  /\ writers = NoWriters
  /\ raced = FALSE
  /\ \E t \in 0..MaxTries, d \in Delays :
       retry = [tries |-> t, delay |-> d, i |-> 0, at |-> "for", log |-> <<>>,
                slept |-> <<>>, table |-> <<>>, error |-> 0]

\* line 25: the loop goes on to its next round or is exhausted
retry_for ==
  /\ retry.at = "for"
  /\ retry' = [retry EXCEPT !.at = IF InRange(retry.i, retry.tries) THEN "try"
                                   ELSE "final"]
  /\ UNCHANGED <<API_KEY, sample_exists, pc, now, data, frames, odds_csv,
                 events_csv, bookmakers_csv, steps, fetch_failed, prune_now,
                 cycle0, writes, reader, writers, raced>>

\* lines 27 and 30: pd.read_csv(path) returns the table in the file or
\* raises; the error of attempt k is numbered k
retry_read ==
  /\ retry.at \in {"try", "final"}
  /\ \E ok \in BOOLEAN :
       retry' =
         [retry EXCEPT
            !.log = Append(@, [ok |-> ok, table |-> odds_csv.rows]),
            !.at = IF ok THEN "returned"
                   ELSE IF retry.at = "try" THEN "except" ELSE "raised",
            !.table = IF ok THEN odds_csv.rows ELSE @,
            !.error = IF ~ok /\ retry.at = "final" THEN Len(retry.log) + 1 ELSE @]
  /\ UNCHANGED <<API_KEY, sample_exists, pc, now, data, frames, odds_csv,
                 events_csv, bookmakers_csv, steps, fetch_failed, prune_now,
                 cycle0, writes, reader, writers, raced>>

\* lines 28-29: except Exception: time.sleep(delay)
retry_sleep ==
  /\ retry.at = "except"
  /\ retry' = [retry EXCEPT !.slept = Append(@, retry.delay),
                            !.i = @ + 1,
                            !.at = "for"]
  /\ UNCHANGED <<API_KEY, sample_exists, pc, now, data, frames, odds_csv,
                 events_csv, bookmakers_csv, steps, fetch_failed, prune_now,
                 cycle0, writes, reader, writers, raced>>

\* the ingester appends a batch to the store while the reader is at work
ingester_appends ==
  /\ retry.at \notin {"returned", "raised"}
  /\ \E p \in RetryFeed :
       /\ AppendWrites(odds_csv, flatten_odds(p, now).odds_df)
       /\ odds_csv' = append_odds_snapshot(odds_csv, flatten_odds(p, now).odds_df)
  /\ UNCHANGED <<API_KEY, sample_exists, pc, now, data, frames, events_csv,
                 bookmakers_csv, steps, fetch_failed, prune_now, cycle0,
                 writes, reader, writers, raced, retry>>

\* the steps of the reader
RetryStep ==
  \/ retry_for
  \/ retry_read
  \/ retry_sleep
RetryNext == RetryStep \/ ingester_appends
\* pd.read_csv and time.sleep come back, so the reader goes on
RetrySpec == RetryInit /\ [][RetryNext]_vars /\ WF_vars(RetryStep)

(***************************************************************************)
(* Vocabulary of the properties.                                           *)
(***************************************************************************)
Rows == odds_csv.rows
Range(s) == {s[i] : i \in 1..Len(s)}

\* the start time of the event of a stored row, NaT when the cell is empty
CommenceOf(cells) == ParseTs(cells.event_commence_utc)

\* the composite key of a stored row, field by field
CompositeKey(cells) ==
  <<cells.event_id, cells.bookmaker_key, cells.market_key, cells.outcome_name,
    IF IsNumText(cells.line_point) THEN ParseNum(cells.line_point) ELSE -1,
    ParseTs(cells.market_last_update)>>

\* a stored row as a record of values: 3 and 3.0 are the same line_point
RowValue(cells) ==
  [cells EXCEPT !.line_point = IF IsNumText(@) THEN FloatText(ParseNum(@)) ELSE @]
Values(rows) == [i \in 1..Len(rows) |-> RowValue(rows[i])]

RECURSIVE IsSubSeq(_, _)
\* s is t with some elements left out
IsSubSeq(s, t) ==
  IF s = <<>> THEN TRUE
  ELSE IF t = <<>> THEN FALSE
  ELSE IF Head(s) = Head(t) THEN IsSubSeq(Tail(s), Tail(t))
  ELSE IsSubSeq(s, Tail(t))

\* C1: no two rows of the fact store have the same composite key, whatever
\* the payloads were (a key repeated inside a payload, a first-time write).
C1_KeyUniqueness ==
  \A i, j \in 1..Len(Rows) : i # j => CompositeKey(Rows[i]) # CompositeKey(Rows[j])

\* C2: only the pruning step removes rows, and what it leaves are rows that
\* were there, in their order; the append step leaves every stored row as it
\* was and where it was; no other step touches the store.
C2_AppendOnly ==
  [][/\ pc = "append" =>
          /\ IsPrefix(Rows, odds_csv'.rows)
          /\ odds_csv.exists => odds_csv'.exists
     /\ pc = "prune" =>
          /\ IsSubSeq(Values(odds_csv'.rows), Values(Rows))
          /\ odds_csv'.exists = odds_csv.exists
     /\ pc \notin {"append", "prune"} => odds_csv' = odds_csv]_vars

\* an append has added rows behind the rows of an existing store
C2_Witness ==
  /\ pc = "sleep"
  /\ steps[Len(steps)] = "append"
  /\ cycle0[1].exists
  /\ Len(cycle0[1].rows) > 0
  /\ Len(Rows) > Len(cycle0[1].rows)

\* C3: appending a batch twice leaves the store as appending it once does.
C3_Idempotence ==
  pc = "append" =>
    append_odds_snapshot(append_odds_snapshot(odds_csv, frames.odds_df),
                         frames.odds_df)
      = append_odds_snapshot(odds_csv, frames.odds_df)

\* C4: right after remove_expired_events has run on an existing store,
\* every row left starts at or after the time of the pass.
C4_PruningCorrectness ==
  (pc = "append" /\ odds_csv.exists) =>
    \A i \in 1..Len(Rows) :
      CommenceOf(Rows[i]) # NaT /\ CommenceOf(Rows[i]) >= prune_now

\* a pass has removed a row and kept a row
C4_Witness ==
  /\ pc = "append"
  /\ Len(Rows) > 0
  /\ Len(Rows) < Len(cycle0[1].rows)

\* C5: once a pruning pass has run, every row of the store starts at or
\* after the time of the most recent pass, also after the append that
\* follows the pass.
C5_ExpiryInvariant ==
  prune_now # NaT =>
    \A i \in 1..Len(Rows) :
      CommenceOf(Rows[i]) # NaT => CommenceOf(Rows[i]) >= prune_now

\* C6: an exception of any step is caught, the process never terminates
\* once it runs, the sleep is taken after a failed and after a successful
\* cycle, and another cycle starts.
C6_FailureIsolation ==
  /\ [](API_KEY = "key" => pc # "halted")
  /\ (pc = "except") ~> (pc = "sleep")
  /\ (pc = "sleep") ~> (pc = "fetch" /\ steps = <<>>)
  /\ (pc \in {"flatten", "dims", "prune", "append"}) ~> (pc = "sleep")

\* the append step of a cycle has raised and the exception was caught
C6_Witness ==
  /\ pc = "except"
  /\ steps[Len(steps)] = "append"
  /\ odds_csv.exists
  /\ events_csv.exists

\* C7 as stated: a cycle whose fetch failed changes no file.
C7_FetchFailureMutatesNothing ==
  fetch_failed => files = cycle0

\* C7 amended: a cycle whose fetch failed while there is no sample file
\* ends at once, with the three files as they were.
C7_FetchFailureWithoutSample ==
  (fetch_failed /\ ~sample_exists) => (pc = "sleep" /\ files = cycle0)

\* the fetch failed without a sample file, over files written earlier
C7_Witness ==
  /\ fetch_failed
  /\ ~sample_exists
  /\ odds_csv.exists /\ events_csv.exists /\ bookmakers_csv.exists

\* C8 as stated: the steps run in the order fetch, flatten, prune, write
\* dimensions, append.
C8_StepOrderAsStated ==
  IsPrefix(steps, <<"fetch", "flatten", "prune", "dims", "append">>)

\* C8 amended: the steps run in the order fetch, flatten, write dimensions,
\* prune, append.
C8_StepOrder ==
  IsPrefix(steps, <<"fetch", "flatten", "dims", "prune", "append">>)

\* a cycle has gone through all five steps
C8_Witness == Len(steps) = 5 /\ pc = "sleep"

\* C9: the append never runs in a cycle before the pruning of that cycle
\* is complete, and the store it reads holds no row that the pass had to
\* remove.
C9_PruneBeforeAppend ==
  /\ \A i \in 1..Len(steps) :
       steps[i] = "append" => \E j \in 1..(i - 1) : steps[j] = "prune"
  /\ pc = "append" =>
       /\ steps[Len(steps)] = "prune"
       /\ \A i \in 1..Len(Rows) : ~(CommenceOf(Rows[i]) < prune_now)

\* the append has run on a store that the pruning of the cycle went through
C9_Witness ==
  /\ "append" \in Range(steps)
  /\ cycle0[1].exists
  /\ Len(Rows) > 0

\* C10: without an API key the loop is never entered, nothing is fetched
\* and no file is written; the process stops for no other reason.
C10_RefuseWithoutKey ==
  /\ API_KEY \in {NONE, ""} =>
       /\ pc \in {"import", "halted"}
       /\ steps = <<>>
       /\ files = <<NoFile, NoFile, NoFile>>
  /\ pc = "halted" => API_KEY \in {NONE, ""}

\* the import has raised on an empty API_KEY
C10_Witness == pc = "halted" /\ API_KEY = ""

\* C11: every fact row that flatten_odds emits has is_home_team true when
\* the outcome name is the home team of its event, false when it is the away
\* team, null otherwise, also when the event has no home team.
C11_HomeAwayDerivation ==
  pc = "dims" =>
    \A i \in 1..Len(frames.odds_df) :
      LET row == frames.odds_df[i]
          event == data[CHOOSE k \in 1..Len(data) : data[k].id = row.event_id]
      IN row.is_home_team =
           IF row.outcome_name = event.home_team THEN "True"
           ELSE IF row.outcome_name = event.away_team THEN "False"
           ELSE NONE

RECURSIVE SumSeq(_)
SumSeq(ns) == IF ns = <<>> THEN 0 ELSE Head(ns) + SumSeq(Tail(ns))

\* the number of outcomes quoted in a payload
NumOutcomes(json_data) ==
  SumSeq([i \in 1..Len(json_data) |->
    SumSeq([j \in 1..Len(json_data[i].bookmakers) |->
      SumSeq([k \in 1..Len(json_data[i].bookmakers[j].markets) |->
        Len(json_data[i].bookmakers[j].markets[k].outcomes)])])])

EventIds(json_data) == {json_data[i].id : i \in 1..Len(json_data)}
BookKeys(json_data) ==
  UNION {{json_data[i].bookmakers[j].key : j \in 1..Len(json_data[i].bookmakers)} :
           i \in 1..Len(json_data)}

\* C12: a cycle that starts without a fact store and whose payload holds
\* only events that have not started leaves a store with one row per
\* outcome of the payload, an events file with one row per event id and a
\* bookmakers file with one row per bookmaker key.
C12_FirstCycle ==
  (/\ Len(steps) = 5
   /\ pc \in {"sleep", "except"}
   /\ ~cycle0[1].exists
   /\ data # <<>>
   /\ \A i \in 1..Len(data) : data[i].commence_time >= now)
  => /\ odds_csv.exists
     /\ Len(Rows) = NumOutcomes(data)
     /\ events_csv.exists
     /\ Len(events_csv.rows) = Cardinality(EventIds(data))
     /\ bookmakers_csv.exists
     /\ Len(bookmakers_csv.rows) = Cardinality(BookKeys(data))

\* C13: pruning writes nothing when there is nothing to remove. Without a
\* store remove_expired_events creates no file and changes nothing; with a
\* store it rewrites the file exactly when at least one row is removed, and
\* otherwise leaves the file as it was.
C13_PruneWritesOnlyOnRemoval ==
  [][(pc = "prune" /\ pc' = NextStep("prune")) =>
       /\ ~odds_csv.exists => (odds_csv' = odds_csv /\ "prune" \notin writes')
       /\ "prune" \in writes' <=>
            (odds_csv.exists /\ Len(odds_csv'.rows) < Len(odds_csv.rows))
       /\ "prune" \notin writes' => odds_csv' = odds_csv]_vars

\* the pass over an existing store has ended and nothing was written
C13_Witness ==
  /\ pc = NextStep("prune")
  /\ odds_csv.exists
  /\ odds_csv.rows # <<>>
  /\ "prune" \notin writes

\* C14: every reader of the fact store, dashboard.py and plot_line_movement.py,
\* dedups on the six-field composite key of the appender before charting: of
\* the rows it is about to chart, two are collapsed into one if and only if
\* they agree on all six fields, so rows that differ only in line_point are
\* both kept.
C14_ReadersUseCompositeKey ==
  reader.op # "none" =>
    /\ {CompositeKey(r) : r \in reader.kept} =
         {CompositeKey(reader.input[i]) : i \in 1..Len(reader.input)}
    /\ \A r1, r2 \in reader.kept : CompositeKey(r1) = CompositeKey(r2) => r1 = r2

\* C15: pruning removes only expired rows. A completed pass of
\* remove_expired_events over the store removes a row if and only if its
\* event_commence_utc is strictly before the current time: rows whose
\* event_commence_utc is null or equal to now stay, and the rows that stay
\* keep their order.
C15_PruneRemovesOnlyExpired ==
  [][(pc = "prune" /\ pc' = NextStep("prune") /\ odds_csv.exists) =>
       Values(odds_csv'.rows) =
         Values(SelectIdx(odds_csv.rows,
                          {i \in 1..Len(odds_csv.rows) :
                             ~(/\ CommenceOf(odds_csv.rows[i]) # NaT
                               /\ CommenceOf(odds_csv.rows[i]) < now)}, 1))]_vars

\* the rows of a batch as the append prints them
BatchCells == ToCsv(frames.odds_df)
StoredKeys == {CompositeKey(Rows[i]) : i \in 1..Len(Rows)}
\* the rows of the batch whose six key fields differ from every stored row
KeyNew == {i \in 1..Len(BatchCells) : CompositeKey(BatchCells[i]) \notin StoredKeys}

\* C16: dedup uses the identity key only. When append_odds_snapshot completes
\* on an existing store, an incoming row whose six key fields equal those of
\* a stored row is not appended, whatever its other fields are, and an
\* incoming row that differs from every stored row in a key field is appended.
C16_DedupByIdentityKey ==
  [][(pc = "append" /\ pc' = NextStep("append") /\ odds_csv.exists) =>
       Values(odds_csv'.rows) =
         Values(odds_csv.rows \o SelectIdx(BatchCells, KeyNew, 1))]_vars

\* C17: append placement. When the store exists and some incoming rows are
\* new, a completed append_odds_snapshot leaves the existing rows as they
\* were and writes exactly the new rows after them, in the order of the
\* batch, without a header line; and at all times the store has exactly one
\* header line, the first line of the file.
C17_AppendPlacement ==
  /\ [](odds_csv.exists => odds_csv.hdr = {1})
  /\ [][(pc = "append" /\ pc' = NextStep("append") /\ odds_csv.exists
           /\ KeyNew # {}) =>
          /\ odds_csv'.rows = odds_csv.rows \o SelectIdx(BatchCells, KeyNew, 1)
          /\ odds_csv'.hdr = odds_csv.hdr]_vars

\* C18: no write on an empty filtered set. Whenever the store exists and no
\* incoming row has a key absent from the store, because every incoming row
\* is a duplicate or because the batch has no rows at all, the call of
\* append_odds_snapshot writes nothing to the store and returns normally.
C18_NoWriteOnEmptyFilteredSet ==
  [][(pc = "append" /\ pc' # pc /\ odds_csv.exists /\ KeyNew = {}) =>
       /\ odds_csv' = odds_csv
       /\ "append" \notin writes'
       /\ pc' = NextStep("append")]_vars

\* the six key fields of a row of the incoming frame
FrameKey(row) ==
  <<row.event_id, row.bookmaker_key, row.market_key, row.outcome_name,
    row.line_point.h, row.market_last_update>>

\* C19: key serialization is injective. Among the rows that
\* append_odds_snapshot serializes, the incoming frame and the rows read
\* back from the store, two rows get the same '|'-joined key string if and
\* only if they are equal field by field on the six key columns, also when
\* a value contains '|' or is null.
C19_KeySerializationInjective ==
  (pc = "append" /\ odds_csv.exists) =>
    /\ \A i, j \in 1..Len(frames.odds_df) :
         incoming_keys(frames.odds_df)[i] = incoming_keys(frames.odds_df)[j]
           <=> FrameKey(frames.odds_df[i]) = FrameKey(frames.odds_df[j])
    /\ \A i, j \in 1..Len(Rows) :
         KeyString(ExistingStr(Rows[i], CsvPointDtype(Rows))) =
           KeyString(ExistingStr(Rows[j], CsvPointDtype(Rows)))
           <=> CompositeKey(Rows[i]) = CompositeKey(Rows[j])

\* some two rows of the store have the same composite key
DuplicateKeys ==
  \E i, j \in 1..Len(Rows) : i < j /\ CompositeKey(Rows[i]) = CompositeKey(Rows[j])

\* C20: with two ingestion processes on one store, a store with duplicate
\* composite keys is reachable, and it is the non-atomic check-then-append
\* that makes it so, not the logic of a single process: whenever the store
\* has duplicate keys, some process wrote after the store had changed
\* between its check and its write.
C20_DuplicatesOnlyByRace == DuplicateKeys => raced

\* C21: no rollback of a partial cycle. When the pruning or the fact append
\* of a cycle has raised, events.csv and bookmakers.csv hold the content of
\* the new payload, a pruning done in the cycle is still in effect in
\* odds.csv, and the exception handler and the sleep leave the three files
\* as they are, so the next cycle starts from that state.
C21_NoRollback ==
  /\ []((pc = "except" /\ steps # <<>>
          /\ steps[Len(steps)] \in {"prune", "append"}) =>
          /\ events_csv = File(frames.events_df)
          /\ bookmakers_csv = File(frames.bookmakers_df)
          /\ odds_csv = IF steps[Len(steps)] = "append"
                        THEN remove_expired_events(cycle0[1], now)
                        ELSE cycle0[1])
  /\ [][(pc \in {"except", "sleep"}) => files' = files]_vars

\* the append has raised after the dimension files were replaced and the
\* pruning rewrote the store
C21_Witness ==
  /\ pc = "except"
  /\ steps # <<>>
  /\ steps[Len(steps)] = "append"
  /\ "prune" \in writes
  /\ odds_csv # cycle0[1]
  /\ events_csv # cycle0[2]
  /\ bookmakers_csv # cycle0[3]

\* the failed ones among the first tries attempts of the call
FailedInLoop ==
  {k \in 1..Len(retry.log) : k <= retry.tries /\ ~retry.log[k].ok}

\* C22: read_csv_retry(path, tries, delay) makes at most tries + 1 read
\* attempts, returns the table of the first attempt that succeeds, has slept
\* delay once after each failed attempt among the first tries, raises the
\* error of the final attempt when every attempt fails, and always
\* terminates by returning or by raising.
C22_ReaderRetry ==
  /\ [](/\ Len(retry.log) <= retry.tries + 1
        /\ retry.at = "returned" =>
             /\ retry.log[Len(retry.log)].ok
             /\ \A k \in 1..(Len(retry.log) - 1) : ~retry.log[k].ok
             /\ retry.table = retry.log[Len(retry.log)].table
        /\ retry.at = "raised" =>
             /\ Len(retry.log) = retry.tries + 1
             /\ \A k \in 1..Len(retry.log) : ~retry.log[k].ok
             /\ retry.error = retry.tries + 1
        /\ retry.at \in {"returned", "raised"} =>
             retry.slept = [k \in 1..Cardinality(FailedInLoop) |-> retry.delay])
  /\ <>(retry.at \in {"returned", "raised"})

\* the call has returned the table of its last attempt, after every attempt
\* of the loop had failed and the store had grown meanwhile
C22_Witness ==
  /\ retry.at = "returned"
  /\ retry.tries = MaxTries
  /\ Len(retry.log) = MaxTries + 1
  /\ retry.log[1].table # retry.table

====
